---- MODULE Spec2Model ----
(***************************************************************************)
(* Model of stm-datastructures (src/src/lib.rs): THashSet and THashMap,    *)
(* two containers sharded over a fixed vector of stm::TVar buckets.        *)
(*                                                                         *)
(* A TVar is a record [val, ver]: `val` is the committed value and `ver`   *)
(* stands for the identity of the Arc that holds it (the stm crate         *)
(* validates a transaction by comparing Arc addresses, so every committed  *)
(* write yields a fresh identity).  A transaction is a thread running a    *)
(* closure (a program of container operations) against a private log and   *)
(* committing it atomically, or clearing the log and running it again.     *)
(***************************************************************************)
EXTENDS Integers, Sequences, FiniteSets, TLC

\* ------------------------------------------------------------- bounds
MaxTxns    == 3     \* transactions begun in a run
MaxConc    == 2     \* transactions begun in a run with concurrency
NumValues  == 2
MaxBuckets == 2

Threads    == 1..MaxTxns        \* one thread per atomically call, in start order
Values     == 1..NumValues      \* the element type T / the key type K
Payloads   == {"x", "y"}        \* the value type V of THashMap
HashCodes  == 0..(MaxBuckets - 1)   \* results of DefaultHasher::finish

VARIABLES
    hash,         \* the (fixed) hash function: Values -> HashCodes
    kind,         \* "none" | "set" | "map" | "panic": what construction gave
    ctor,         \* [fn, bucket_count, map]: the constructor call made
    contents,     \* Vec<TVar<..>>: sequence of [val, ver]
    status,       \* per thread: "idle" | "running" | "committed" | "panicked"
    prog,         \* per thread: the closure body, a sequence of operations
    pc,           \* per thread: index of the operation being executed
    stage,        \* per thread: "call" | "probed" (inside insert)
    set_ro,       \* per thread: insert's atomic snapshot of the bucket
    idx,          \* per thread: loop position of as_vec / is_empty / get_contents
    acc,          \* per thread: as_vec's `result` vector / get_contents' map
    log,          \* per thread: the Transaction's log, bucket index -> entry
    res,          \* per thread: results returned by the operations so far
    attempts,     \* per thread: executions of the closure so far
    started       \* number of transactions begun

vars == <<hash, kind, ctor, contents, status, prog, pc, stage, set_ro, idx,
          acc, log, res, attempts, started>>

shared == <<hash, kind, ctor, contents>>

\* ------------------------------------------------------------- helpers
Range(s) == {s[i] : i \in 1..Len(s)}

\* all enumerations of a finite set as a duplicate-free sequence
Orders(S) == {s \in [1..Cardinality(S) -> S] : Range(s) = S}

Op(o, a) == [op |-> o, arg |-> a]

EmptyLog == [i \in {} |-> 0]

\* ------------------------------------------------------------- hash router
\* hasher.finish() as usize % len  (lib.rs:37-39, 95-97, 106-108); the
\* remainder by zero panics, which the callers below guard.
bucket_no(value, len) == hash[value] % len

\* ------------------------------------------------------------- stm engine
\* TVar::new: a fresh variable holding `v`
TVarNew(v) == [val |-> v, ver |-> 0]

Len0 == Len(contents)
Buckets == 0..(Len0 - 1)
Bucket(i) == contents[i + 1]

\* TVar::read_atomic / read_ref_atomic: the committed value, no log entry
read_atomic(i) == Bucket(i).val

\* Transaction::read: the value the transaction sees in bucket i ...
ReadValue(lg, i) == IF i \in DOMAIN lg THEN lg[i].val ELSE Bucket(i).val

\* ... and the log after the read (a vacant entry becomes Read)
LogAfterRead(lg, i) ==
    IF i \in DOMAIN lg THEN lg
    ELSE [j \in DOMAIN lg \cup {i} |->
            IF j = i THEN [kind |-> "Read", ver |-> Bucket(i).ver, val |-> Bucket(i).val]
            ELSE lg[j]]

\* Transaction::write: Read becomes ReadWrite, a vacant entry becomes Write
LogAfterWrite(lg, i, v) ==
    [j \in DOMAIN lg \cup {i} |->
        IF j # i THEN lg[j]
        ELSE IF i \in DOMAIN lg /\ lg[i].kind \in {"Read", "ReadWrite"}
             THEN [kind |-> "ReadWrite", ver |-> lg[i].ver, val |-> v]
             ELSE [kind |-> "Write", ver |-> 0, val |-> v]]

\* Transaction::commit, validation: every entry that was read still holds
\* the Arc that was read
LogValid(lg) ==
    \A i \in DOMAIN lg :
        lg[i].kind \in {"Read", "ReadWrite"} => Bucket(i).ver = lg[i].ver

\* Transaction::commit, write back: every written entry is stored as a new Arc
Committed(lg) ==
    [n \in 1..Len0 |->
        IF (n - 1) \in DOMAIN lg /\ lg[n - 1].kind \in {"Write", "ReadWrite"}
        THEN [val |-> lg[n - 1].val, ver |-> contents[n].ver + 1]
        ELSE contents[n]]

\* ------------------------------------------------------------- bucket values
EmptyMap == [k \in {} |-> 0]
MapInsert(m, k, v) == [x \in DOMAIN m \cup {k} |-> IF x = k THEN v ELSE m[x]]
MapRemove(m, k) == [x \in DOMAIN m \ {k} |-> m[x]]

\* ------------------------------------------------------------- constructors
\* THashSet::new / THashMap::new: push bucket_count fresh empty buckets
NewContents(bucket_count, empty) == [n \in 1..bucket_count |-> TVarNew(empty)]

\* THashMap::from_hashmap, the partition loop over the entries of `map`
RECURSIVE Partition(_, _, _, _)
Partition(hs, map, todo, bucket_count) ==
    IF todo = {} THEN hs
    ELSE LET k == CHOOSE x \in todo : TRUE
             b == bucket_no(k, bucket_count)
         IN  Partition([hs EXCEPT ![b + 1] = MapInsert(@, k, map[k])],
                       map, todo \ {k}, bucket_count)

\* (variant: every entry lands in the first group, the router is not used)
from_hashmap_first(map, bucket_count) ==
    [n \in 1..bucket_count |-> TVarNew(IF n = 1 THEN map ELSE EmptyMap)]

from_hashmap(map, bucket_count) ==
    LET hs == Partition([n \in 1..bucket_count |-> EmptyMap], map, DOMAIN map, bucket_count)
    IN  [n \in 1..bucket_count |-> TVarNew(hs[n])]

SourceMaps == UNION {[D -> Payloads] : D \in SUBSET Values}

SetNew(bucket_count) ==
    /\ kind = "none"
    /\ kind' = "set"
    /\ ctor' = [fn |-> "THashSet::new", bucket_count |-> bucket_count, map |-> EmptyMap]
    /\ contents' = NewContents(bucket_count, {})
    /\ UNCHANGED <<hash, status, prog, pc, stage, set_ro, idx, acc, log, res,
                   attempts, started>>

MapNew(bucket_count) ==
    /\ kind = "none"
    /\ kind' = "map"
    /\ ctor' = [fn |-> "THashMap::new", bucket_count |-> bucket_count, map |-> EmptyMap]
    /\ contents' = NewContents(bucket_count, EmptyMap)
    /\ UNCHANGED <<hash, status, prog, pc, stage, set_ro, idx, acc, log, res,
                   attempts, started>>

\* (variant: no division by bucket_count, so zero buckets are accepted)
MapFromHashmapNoDiv(map, bucket_count) ==
    /\ kind = "none"
    /\ ctor' = [fn |-> "THashMap::from_hashmap", bucket_count |-> bucket_count, map |-> map]
    /\ kind' = "map"
    /\ contents' = IF bucket_count = 0 THEN <<>> ELSE from_hashmap(map, bucket_count)
    /\ UNCHANGED <<hash, status, prog, pc, stage, set_ro, idx, acc, log, res,
                   attempts, started>>

\* map.len() / bucket_count panics for bucket_count = 0 before anything is built
MapFromHashmap(map, bucket_count) ==
    /\ kind = "none"
    /\ ctor' = [fn |-> "THashMap::from_hashmap", bucket_count |-> bucket_count, map |-> map]
    /\ IF bucket_count = 0
       THEN kind' = "panic" /\ contents' = <<>>
       ELSE kind' = "map" /\ contents' = from_hashmap(map, bucket_count)
    /\ UNCHANGED <<hash, status, prog, pc, stage, set_ro, idx, acc, log, res,
                   attempts, started>>

\* ------------------------------------------------------------- transactions
OpInsert(v)   == Op("insert", v)
OpAsVec       == Op("as_vec", 0)
OpIsEmpty     == Op("is_empty", 0)
OpPut(k, p)   == Op("put", <<k, p>>)
OpRemove(k)   == Op("remove", k)
OpGetContents == Op("get_contents", 0)

\* closures passed to atomically when transactions run one after another:
\* one container operation each
SeqSetPrograms == {<<OpInsert(v)>> : v \in Values} \cup {<<OpAsVec>>}
SeqMapPrograms == {<<OpIsEmpty>>, <<OpGetContents>>}

\* closures of the concurrent runs: one or two operations
SetPrograms == {<<OpInsert(v)>> : v \in Values}
                 \cup {<<OpAsVec>>}
                 \cup {<<OpInsert(v), OpInsert(w)>> : v \in Values, w \in Values}
                 \cup {<<OpInsert(v), OpAsVec>> : v \in Values}
MapPrograms == {<<OpIsEmpty>>, <<OpGetContents>>}
                 \cup {<<OpPut(k, "y")>> : k \in Values}
                 \cup {<<OpRemove(k)>> : k \in Values}
                 \cup {<<OpRemove(k), OpPut(j, "y")>> : k \in Values, j \in Values}
                 \cup {<<OpPut(k, "y"), OpIsEmpty>> : k \in Values}

Running(t) == status[t] = "running" /\ pc[t] <= Len(prog[t])
Cur(t) == prog[t][pc[t]]

\* the operation returns `r`: the closure moves on to its next operation
Return(t, r) ==
    /\ res' = [res EXCEPT ![t] = Append(@, r)]
    /\ pc' = [pc EXCEPT ![t] = @ + 1]
    /\ stage' = [stage EXCEPT ![t] = "call"]
    /\ set_ro' = [set_ro EXCEPT ![t] = {}]
    /\ idx' = [idx EXCEPT ![t] = 0]
    /\ acc' = [acc EXCEPT ![t] = <<>>]

\* a panic unwinds the thread; its transaction is dropped uncommitted
Panic(t) ==
    /\ status' = [status EXCEPT ![t] = "panicked"]
    /\ UNCHANGED <<prog, pc, stage, set_ro, idx, acc, log, res, attempts,
                   started>>

\* atomically(|trans| ...): the next thread starts a transaction running closure p
Begin(p) ==
    /\ kind \in {"set", "map"}
    /\ started < MaxTxns
    /\ status' = [status EXCEPT ![started + 1] = "running"]
    /\ prog' = [prog EXCEPT ![started + 1] = p]
    /\ attempts' = [attempts EXCEPT ![started + 1] = 1]
    /\ started' = started + 1
    /\ UNCHANGED <<shared, pc, stage, set_ro, idx, acc, log, res>>

\* ... after every earlier transaction has ended
SeqBegin(p) ==
    /\ \A u \in Threads : status[u] # "running"
    /\ p \in (IF kind = "set" THEN SeqSetPrograms ELSE SeqMapPrograms)
    /\ Begin(p)

\* ... while earlier transactions may still be running
ConcBegin(p) ==
    /\ started < MaxConc
    /\ p \in (IF kind = "set" THEN SetPrograms ELSE MapPrograms)
    /\ Begin(p)

\* ------------------------------------------------------------- THashSet::insert
\* (variant: the probe always looks at the first bucket)
insert_probe_first(lg, b) == read_atomic(0)

\* line 41: the membership probe reads the committed bucket atomically
insert_probe(lg, b) == read_atomic(b)

\* (variant: the snapshot of the probe is written back without a transactional read)
insert_modify_blind(lg, b, value, snapshot) ==
    LogAfterWrite(lg, b, snapshot \cup {value})

\* (variant: the modify goes to the first bucket, not to bucket_no)
insert_modify_first(lg, b, value, snapshot) ==
    LogAfterWrite(LogAfterRead(lg, 0), 0, ReadValue(lg, 0) \cup {value})

\* (variant: the bucket is overwritten with the set holding only the value)
insert_modify_only(lg, b, value, snapshot) ==
    LogAfterWrite(LogAfterRead(lg, b), b, {value})

\* line 48: modify(trans, |hs| { hs.insert(value); hs }) = read, then write
insert_modify(lg, b, value, snapshot) ==
    LogAfterWrite(LogAfterRead(lg, b), b, ReadValue(lg, b) \cup {value})

InsertProbe(t) ==
    /\ Running(t) /\ Cur(t).op = "insert" /\ stage[t] = "call"
    /\ IF Len0 = 0
       THEN Panic(t)
       ELSE /\ set_ro' = [set_ro EXCEPT ![t] =
                            insert_probe(log[t], bucket_no(Cur(t).arg, Len0))]
            /\ stage' = [stage EXCEPT ![t] = "probed"]
            /\ UNCHANGED <<status, prog, pc, idx, acc, log, res, attempts,
                           started>>
    /\ UNCHANGED shared

InsertFinish(t) ==
    /\ Running(t) /\ Cur(t).op = "insert" /\ stage[t] = "probed"
    /\ IF Cur(t).arg \in set_ro[t]
       THEN /\ Return(t, FALSE)
            /\ UNCHANGED log
       ELSE /\ log' = [log EXCEPT ![t] =
                         insert_modify(@, bucket_no(Cur(t).arg, Len0), Cur(t).arg, set_ro[t])]
            /\ Return(t, TRUE)
    /\ UNCHANGED <<shared, status, prog, attempts, started>>

\* ------------------------------------------------------------- THashSet::as_vec
\* line 61: set.read(trans) hands out a clone of the bucket's set
as_vec_read(lg, i) == ReadValue(lg, i)

\* (variant: the bucket is read without entering the transaction's read set)
as_vec_log_untracked(lg, i) == lg

\* lines 61-62: the clone is drained; the log only records the read
as_vec_log(lg, i) == LogAfterRead(lg, i)

\* (variant: the drained elements are put in front of the result)
as_vec_prepend(result, drained) == drained \o result

\* line 62: result.append(..) moves the drained elements to the end of result
as_vec_append(result, drained) == result \o drained

AsVecStep(t) ==
    /\ Running(t) /\ Cur(t).op = "as_vec"
    /\ IF idx[t] < Len0
       THEN /\ \E order \in Orders(as_vec_read(log[t], idx[t])) :
                 acc' = [acc EXCEPT ![t] = as_vec_append(@, order)]
            /\ log' = [log EXCEPT ![t] = as_vec_log(@, idx[t])]
            /\ idx' = [idx EXCEPT ![t] = @ + 1]
            /\ UNCHANGED <<pc, stage, set_ro, res>>
       ELSE /\ Return(t, acc[t])
            /\ UNCHANGED log
    /\ UNCHANGED <<shared, status, prog, attempts, started>>

\* ------------------------------------------------------------- THashMap
\* (variant: the bucket is probed with read_atomic)
is_empty_read_atomic(lg, i) == read_atomic(i)

\* line 115: bucket.read(trans), the value seen ...
is_empty_read(lg, i) == ReadValue(lg, i)

\* (variant: the read leaves no trace in the transaction's read set)
is_empty_log_untracked(lg, i) == lg

\* ... and its entry in the log
is_empty_log(lg, i) == LogAfterRead(lg, i)

IsEmptyStep(t) ==
    /\ Running(t) /\ Cur(t).op = "is_empty"
    /\ IF idx[t] < Len0
       THEN /\ log' = [log EXCEPT ![t] = is_empty_log(@, idx[t])]
            /\ IF DOMAIN is_empty_read(log[t], idx[t]) # {}
               THEN Return(t, FALSE)
               ELSE /\ idx' = [idx EXCEPT ![t] = @ + 1]
                    /\ UNCHANGED <<pc, stage, set_ro, acc, res>>
       ELSE /\ Return(t, TRUE)
            /\ UNCHANGED log
    /\ UNCHANGED <<shared, status, prog, attempts, started>>

\* (variant: the handle of the first bucket is returned for every key)
get_bucket_first(item) == 0

\* get_bucket(item), lines 105-111: the (0-based) bucket whose handle is returned
get_bucket(item) == bucket_no(item, Len0)

\* a caller using the handle as
\* get_bucket(&k).modify(trans, |mut m| { m.insert(k, v); m })
Put(t) ==
    /\ Running(t) /\ Cur(t).op = "put"
    /\ IF Len0 = 0
       THEN Panic(t)
       ELSE LET k == Cur(t).arg[1]
                b == get_bucket(k)
            IN  /\ log' = [log EXCEPT ![t] =
                      LogAfterWrite(LogAfterRead(@, b), b,
                                    MapInsert(ReadValue(@, b), k, Cur(t).arg[2]))]
                /\ Return(t, "unit")
                /\ UNCHANGED <<status, prog, attempts, started>>
    /\ UNCHANGED shared

\* get_bucket(&k).modify(trans, |mut m| { m.remove(&k); m })
Remove(t) ==
    /\ Running(t) /\ Cur(t).op = "remove"
    /\ IF Len0 = 0
       THEN Panic(t)
       ELSE LET k == Cur(t).arg
                b == get_bucket(k)
            IN  /\ log' = [log EXCEPT ![t] =
                      LogAfterWrite(LogAfterRead(@, b), b,
                                    MapRemove(ReadValue(@, b), k))]
                /\ Return(t, "unit")
                /\ UNCHANGED <<status, prog, attempts, started>>
    /\ UNCHANGED shared

\* (variant: each bucket's map replaces what was collected before)
MapMergeLast(a, m) == m

\* THashMap::get_contents, line 125: read_atomic of one bucket after the
\* other, outside any transaction, collected into one HashMap
MapMerge(a, m) ==
    [x \in DOMAIN a \cup DOMAIN m |-> IF x \in DOMAIN m THEN m[x] ELSE a[x]]

\* (variant: the read returns what a running transaction has written to the
\* bucket but not committed, if there is such a write)
get_contents_read_dirty(i) ==
    LET writers == {u \in Threads : /\ i \in DOMAIN log[u]
                                    /\ log[u][i].kind \in {"Write", "ReadWrite"}}
    IN  IF writers = {} THEN Bucket(i).val
        ELSE log[CHOOSE u \in writers : TRUE][i].val

\* line 125: TVar::read_atomic applied to bucket i
get_contents_read(i) == read_atomic(i)

GetContentsStep(t) ==
    /\ Running(t) /\ Cur(t).op = "get_contents"
    /\ IF idx[t] < Len0
       THEN /\ acc' = [acc EXCEPT ![t] = MapMerge(@, get_contents_read(idx[t]))]
            /\ idx' = [idx EXCEPT ![t] = @ + 1]
            /\ UNCHANGED <<pc, stage, set_ro, res>>
       ELSE Return(t, acc[t])
    /\ UNCHANGED <<shared, status, prog, log, attempts, started>>

\* ------------------------------------------------------------- commit / retry
AtEnd(t) == status[t] = "running" /\ pc[t] = Len(prog[t]) + 1

Commit(t) ==
    /\ AtEnd(t)
    /\ LogValid(log[t])
    /\ contents' = Committed(log[t])
    /\ status' = [status EXCEPT ![t] = "committed"]
    /\ log' = [log EXCEPT ![t] = EmptyLog]
    /\ UNCHANGED <<hash, kind, ctor, prog, pc, stage, set_ro, idx, acc, res,
                   attempts, started>>

\* (variant: a commit that fails validation still publishes its writes)
CommitFailPublish(t) ==
    /\ AtEnd(t)
    /\ ~LogValid(log[t])
    /\ contents' = Committed(log[t])
    /\ pc' = [pc EXCEPT ![t] = 1]
    /\ log' = [log EXCEPT ![t] = EmptyLog]
    /\ res' = [res EXCEPT ![t] = <<>>]
    /\ attempts' = [attempts EXCEPT ![t] = @ + 1]
    /\ UNCHANGED <<hash, kind, ctor, status, prog, stage, set_ro, idx, acc, started>>

\* (variant: after a failed commit the transaction is given up, not run again)
CommitFailAbandon(t) ==
    /\ AtEnd(t)
    /\ ~LogValid(log[t])
    /\ status' = [status EXCEPT ![t] = "abandoned"]
    /\ log' = [log EXCEPT ![t] = EmptyLog]
    /\ UNCHANGED <<shared, prog, pc, stage, set_ro, idx, acc, res, attempts, started>>

\* commit() returned false: transaction.clear() and the closure runs again
CommitFail(t) ==
    /\ AtEnd(t)
    /\ ~LogValid(log[t])
    /\ pc' = [pc EXCEPT ![t] = 1]
    /\ log' = [log EXCEPT ![t] = EmptyLog]
    /\ res' = [res EXCEPT ![t] = <<>>]
    /\ attempts' = [attempts EXCEPT ![t] = @ + 1]
    /\ UNCHANGED <<shared, status, prog, stage, set_ro, idx, acc, started>>

\* ------------------------------------------------------------- Retry
\* The bucket operations return StmResult. These steps take the outcome
\* Err(Retry) of the call; the thread then holds the error ("signalled").
Signal(t) ==
    /\ status' = [status EXCEPT ![t] = "signalled"]
    /\ UNCHANGED <<shared, prog, pc, stage, set_ro, idx, acc, log, res, attempts,
                   started>>

\* line 48: set.modify(trans, ..) signals Retry
InsertModifyRetry(t) ==
    /\ Running(t) /\ Cur(t).op = "insert" /\ stage[t] = "probed"
    /\ Cur(t).arg \notin set_ro[t]
    /\ Signal(t)

\* line 61: set.read(trans) signals Retry
AsVecReadRetry(t) ==
    /\ Running(t) /\ Cur(t).op = "as_vec" /\ idx[t] < Len0
    /\ Signal(t)

\* line 115: bucket.read(trans) signals Retry
IsEmptyReadRetry(t) ==
    /\ Running(t) /\ Cur(t).op = "is_empty" /\ idx[t] < Len0
    /\ Signal(t)

\* (variant: the error is dropped and the operation carries on with the
\* next bucket)
PropagateSwallow(t) ==
    /\ status[t] = "signalled"
    /\ status' = [status EXCEPT ![t] = "running"]
    /\ idx' = [idx EXCEPT ![t] = @ + 1]
    /\ UNCHANGED <<shared, prog, pc, stage, set_ro, acc, log, res, attempts, started>>

\* the `?` of lines 48, 61 and 115: the operation returns Err(Retry) to its
\* caller; what it had collected is dropped
Propagate(t) ==
    /\ status[t] = "signalled"
    /\ status' = [status EXCEPT ![t] = "retry"]
    /\ res' = [res EXCEPT ![t] = Append(@, "Retry")]
    /\ acc' = [acc EXCEPT ![t] = <<>>]
    /\ UNCHANGED <<shared, prog, pc, stage, set_ro, idx, log, attempts, started>>

\* ------------------------------------------------------------- specifications
Init ==
    /\ hash \in [Values -> HashCodes]
    /\ kind = "none"
    /\ ctor = [fn |-> "none", bucket_count |-> 0, map |-> EmptyMap]
    /\ contents = <<>>
    /\ status = [t \in Threads |-> "idle"]
    /\ prog = [t \in Threads |-> <<>>]
    /\ pc = [t \in Threads |-> 1]
    /\ stage = [t \in Threads |-> "call"]
    /\ set_ro = [t \in Threads |-> {}]
    /\ idx = [t \in Threads |-> 0]
    /\ acc = [t \in Threads |-> <<>>]
    /\ log = [t \in Threads |-> EmptyLog]
    /\ res = [t \in Threads |-> <<>>]
    /\ attempts = [t \in Threads |-> 0]
    /\ started = 0

ConstructSet == \E n \in 0..MaxBuckets : SetNew(n)

ConstructMap ==
    \E n \in 0..MaxBuckets :
        \/ MapNew(n)
        \/ \E m \in SourceMaps : MapFromHashmap(m, n)

SetStep(t) ==
    \/ InsertProbe(t)
    \/ InsertFinish(t)
    \/ AsVecStep(t)

MapStep(t) ==
    \/ IsEmptyStep(t)
    \/ Put(t)
    \/ Remove(t)
    \/ GetContentsStep(t)

\* the concurrent model: either container, transactions overlapping
Next ==
    \/ ConstructSet
    \/ ConstructMap
    \/ \E p \in SetPrograms \cup MapPrograms : ConcBegin(p)
    \/ \E t \in Threads : SetStep(t) \/ MapStep(t) \/ Commit(t) \/ CommitFail(t)

Spec == Init /\ [][Next]_vars

\* concurrent transactions on a THashSet only
NextSet ==
    \/ ConstructSet
    \/ \E p \in SetPrograms : ConcBegin(p)
    \/ \E t \in Threads : SetStep(t) \/ Commit(t) \/ CommitFail(t)

SpecSet == Init /\ [][NextSet]_vars

\* concurrent transactions on a THashMap only
NextMap ==
    \/ ConstructMap
    \/ \E p \in MapPrograms : ConcBegin(p)
    \/ \E t \in Threads : MapStep(t) \/ Commit(t) \/ CommitFail(t)

SpecMap == Init /\ [][NextMap]_vars

\* the sequential schedule: each transaction ends before the next one starts
\* (so no commit ever fails), on either container
NextSeq ==
    \/ ConstructSet
    \/ ConstructMap
    \/ \E p \in SeqSetPrograms \cup SeqMapPrograms : SeqBegin(p)
    \/ \E t \in Threads :
          \/ SetStep(t)
          \/ IsEmptyStep(t)
          \/ GetContentsStep(t)
          \/ Commit(t)

SpecSeq == Init /\ [][NextSeq]_vars

\* the sequential schedule with bucket operations that may signal Retry
NextRetry ==
    \/ NextSeq
    \/ \E t \in Threads :
          \/ InsertModifyRetry(t)
          \/ AsVecReadRetry(t)
          \/ IsEmptyReadRetry(t)
          \/ Propagate(t)

SpecRetry == Init /\ [][NextRetry]_vars

\* transactions of one insert each, all of which may overlap, every thread
\* scheduled again and again
InsertPrograms == {<<OpInsert(v)>> : v \in Values}

InsertBegin(p) == kind = "set" /\ Begin(p)

ThreadStep(t) == InsertProbe(t) \/ InsertFinish(t) \/ Commit(t) \/ CommitFail(t)

NextFair ==
    \/ ConstructSet
    \/ \E p \in InsertPrograms : InsertBegin(p)
    \/ \E t \in Threads : ThreadStep(t)

SpecFair == Init /\ [][NextFair]_vars /\ \A t \in Threads : WF_vars(ThreadStep(t))

\* ============================================================= claims
Begun(t) == status[t] # "idle"
Done(t) == status[t] = "committed"
InsertOnly(p) == \A k \in 1..Len(p) : p[k].op = "insert"
InsertBuckets(p) == {bucket_no(p[k].arg, Len0) : k \in {j \in 1..Len(p) : p[j].op = "insert"}}

\* C1: when single-insert transactions run one after another on a set with
\* at least one bucket, a committed insert has returned true exactly when no
\* earlier insert of the sequence had the same value.
C1_InsertTrueOncePerValue ==
    \A t \in Threads :
        (/\ kind = "set" /\ Len0 >= 1 /\ Done(t)
         /\ \A u \in 1..t : Done(u) /\ Len(prog[u]) = 1 /\ prog[u][1].op = "insert")
        => res[t][1] = (\A u \in 1..(t - 1) : prog[u][1].arg # prog[t][1].arg)

\* inserts a, b, a have committed with results true, true, false
C1_Witness ==
    /\ kind = "set" /\ Len0 = 2
    /\ \A t \in 1..3 : Done(t) /\ Len(prog[t]) = 1 /\ prog[t][1].op = "insert"
    /\ prog[1][1].arg # prog[2][1].arg /\ prog[3][1].arg = prog[1][1].arg
    /\ res[1] = <<TRUE>> /\ res[2] = <<TRUE>> /\ res[3] = <<FALSE>>

\* C2: once a transaction that called as_vec has committed (and nothing has
\* started since), every bucket of the set holds the empty set.
C2_SetEmptyAfterAsVec ==
    \A t \in Threads :
        (/\ kind = "set" /\ Done(t) /\ t = started
         /\ prog[t][Len(prog[t])].op = "as_vec")
        => \A i \in Buckets : Bucket(i).val = {}

CommitsNow(t) == status[t] = "running" /\ status'[t] = "committed"
LastOp(t) == prog[t][Len(prog[t])]
LastRes(t) == res[t][Len(prog[t])]
NoDup(s) == \A i, j \in 1..Len(s) : i # j => s[i] # s[j]

\* C3: when a transaction ending in as_vec commits, the sequence as_vec
\* returned holds each value of the set as it is at the commit (the
\* transaction's own inserts included) exactly once, and nothing else.
C3_AsVecIsCommitSnapshot ==
    [][\A t \in Threads :
         (kind = "set" /\ CommitsNow(t) /\ LastOp(t).op = "as_vec")
         => /\ NoDup(LastRes(t))
            /\ Range(LastRes(t)) = UNION {contents'[n].val : n \in 1..Len(contents')}]_vars

\* an as_vec that had to run again after a concurrent commit, and then
\* committed with both values
C3_Witness ==
    \E t \in Threads :
        /\ kind = "set" /\ Done(t) /\ prog[t] = <<OpAsVec>>
        /\ attempts[t] >= 2 /\ Len(res[t][1]) = 2

\* C4: every value whose insert was called by a committed transaction is in
\* the bucket it routes to, whatever the interleaving was.
C4_NoInsertLost ==
    (kind = "set" /\ Len0 >= 1) =>
        \A t \in Threads : Done(t) =>
            \A k \in 1..Len(prog[t]) :
                prog[t][k].op = "insert"
                => prog[t][k].arg \in Bucket(bucket_no(prog[t][k].arg, Len0)).val

\* two transactions inserted distinct values into the same bucket, one of
\* them was forced to run again, both have committed
C4_Witness ==
    /\ kind = "set" /\ Len0 = 2 /\ Done(1) /\ Done(2)
    /\ Len(prog[1]) = 1 /\ Len(prog[2]) = 1
    /\ prog[1][1].op = "insert" /\ prog[2][1].op = "insert"
    /\ prog[1][1].arg # prog[2][1].arg
    /\ bucket_no(prog[1][1].arg, Len0) = bucket_no(prog[2][1].arg, Len0)
    /\ attempts[1] + attempts[2] = 3

\* C5: a transaction that only inserts, beside transactions that only insert
\* into other buckets, never fails a commit: it is on its first attempt, and
\* at the end of its closure its log passes the validation.
C5_DisjointInsertsDoNotConflict ==
    (kind = "set" /\ Len0 >= 1) =>
        \A t \in Threads :
            (/\ Begun(t) /\ InsertOnly(prog[t])
             /\ \A u \in Threads \ {t} :
                    Begun(u) => /\ InsertOnly(prog[u])
                                /\ InsertBuckets(prog[u]) \cap InsertBuckets(prog[t]) = {})
            => /\ attempts[t] = 1
               /\ AtEnd(t) => LogValid(log[t])

\* two transactions, both through their inserts into different buckets and
\* neither committed yet
C5_Witness ==
    /\ kind = "set" /\ Len0 = 2 /\ AtEnd(1) /\ AtEnd(2)
    /\ InsertOnly(prog[1]) /\ InsertOnly(prog[2])
    /\ InsertBuckets(prog[1]) \cap InsertBuckets(prog[2]) = {}
    /\ res[1][1] = TRUE /\ res[2][1] = TRUE

\* C6: right after from_hashmap(map, K) with K >= 1 there are K buckets with
\* pairwise disjoint key sets, their union is the key set of the source, and
\* every key sits in bucket hash(k) mod K with the value of the source.
C6_FromHashmapPartitions ==
    (kind = "map" /\ ctor.fn = "THashMap::from_hashmap" /\ started = 0)
    => /\ Len0 = ctor.bucket_count
       /\ \A i, j \in Buckets : i # j => DOMAIN Bucket(i).val \cap DOMAIN Bucket(j).val = {}
       /\ UNION {DOMAIN Bucket(i).val : i \in Buckets} = DOMAIN ctor.map
       /\ \A k \in DOMAIN ctor.map :
            /\ k \in DOMAIN Bucket(hash[k] % ctor.bucket_count).val
            /\ Bucket(hash[k] % ctor.bucket_count).val[k] = ctor.map[k]

\* a source of two keys with different values, split over two buckets
C6_Witness ==
    /\ kind = "map" /\ ctor.fn = "THashMap::from_hashmap" /\ started = 0
    /\ Len0 = 2 /\ Cardinality(DOMAIN ctor.map) = 2
    /\ ctor.map[1] # ctor.map[2]
    /\ \A i \in Buckets : DOMAIN Bucket(i).val # {}

\* C7: when is_empty, as the last operation of a closure, has returned, its
\* result is true exactly if every bucket is empty as the transaction sees it;
\* it is true for the first transaction after new, false for the first
\* transaction after from_hashmap of a non-empty source, and false after the
\* transaction's own put.
C7_IsEmptyIffAllEmpty ==
    kind = "map" =>
        \A t \in Threads :
            (AtEnd(t) /\ LastOp(t).op = "is_empty")
            => /\ LastRes(t) = (\A i \in Buckets : DOMAIN ReadValue(log[t], i) = {})
               /\ (prog[t] = <<OpIsEmpty>> /\ started = 1 /\ ctor.fn = "THashMap::new")
                    => LastRes(t) = TRUE
               /\ (started = 1 /\ ctor.fn = "THashMap::from_hashmap" /\ DOMAIN ctor.map # {})
                    => LastRes(t) = FALSE
               /\ (Len(prog[t]) = 2 /\ prog[t][1].op = "put") => LastRes(t) = FALSE

\* is_empty answered false because of the transaction's own uncommitted put
\* into the second bucket, while every committed bucket is empty
C7_Witness ==
    \E t \in Threads :
        /\ kind = "map" /\ Len0 = 2 /\ AtEnd(t)
        /\ Len(prog[t]) = 2 /\ prog[t][1].op = "put" /\ prog[t][2].op = "is_empty"
        /\ bucket_no(prog[t][1].arg[1], Len0) = 1
        /\ res[t][2] = FALSE
        /\ \A i \in Buckets : DOMAIN Bucket(i).val = {}

\* C8: when a transaction consisting of is_empty commits with the result
\* true, every bucket is empty at that commit.
C8_IsEmptySnapshot ==
    [][\A t \in Threads :
         (kind = "map" /\ CommitsNow(t) /\ prog[t] = <<OpIsEmpty>> /\ res[t] = <<TRUE>>)
         => \A i \in Buckets : DOMAIN Bucket(i).val = {}]_vars

\* an is_empty over two buckets that was run again after a concurrent commit
\* and then committed true
C8_Witness ==
    \E t \in Threads :
        /\ kind = "map" /\ Len0 = 2 /\ Done(t) /\ prog[t] = <<OpIsEmpty>>
        /\ attempts[t] >= 2 /\ res[t] = <<TRUE>>

RoutingOps == {"insert", "put", "remove"}

\* C9 as stated: a constructor called with bucket_count = 0 fails; no
\* container without buckets is returned.
C9_ZeroBucketsFatal ==
    (ctor.fn # "none" /\ ctor.bucket_count = 0) => kind = "panic"

\* C9 amended: only from_hashmap fails on bucket_count = 0 (and on nothing
\* else); THashSet::new(0) and THashMap::new(0) return a container without
\* buckets, on which no routing operation ever returns.
C9_ZeroBucketsAmended ==
    /\ (ctor.fn = "THashMap::from_hashmap" /\ ctor.bucket_count = 0) => kind = "panic"
    /\ kind = "panic" => (ctor.fn = "THashMap::from_hashmap" /\ ctor.bucket_count = 0)
    /\ (ctor.fn \in {"THashSet::new", "THashMap::new"} /\ ctor.bucket_count = 0)
         => /\ kind \in {"set", "map"} /\ Len0 = 0
            /\ \A t \in Threads : \A k \in 1..Len(res[t]) : prog[t][k].op \notin RoutingOps

\* THashSet::new(0) returned a set, and an insert into it panicked
C9_Witness ==
    /\ ctor.fn = "THashSet::new" /\ ctor.bucket_count = 0 /\ kind = "set"
    /\ \E t \in Threads : status[t] = "panicked" /\ prog[t][1].op = "insert"

Elems(i) == IF kind = "set" THEN Bucket(i).val ELSE DOMAIN Bucket(i).val

\* C10: in every reachable state each element (key) of a committed bucket is
\* in the bucket its hash routes to, and no element is in two buckets.
C10_OneLocation ==
    (kind \in {"set", "map"} /\ Len0 >= 1) =>
        /\ \A i \in Buckets : \A e \in Elems(i) : bucket_no(e, Len0) = i
        /\ \A i, j \in Buckets : i # j => Elems(i) \cap Elems(j) = {}

\* a set whose two buckets both hold a value after a transaction had to run again
C10_Witness ==
    /\ kind = "set" /\ Len0 = 2
    /\ \A i \in Buckets : Bucket(i).val # {}
    /\ \E t \in Threads : Done(t) /\ attempts[t] >= 2

\* C11: on a map with at least one bucket the bucket count never changes and
\* get_bucket(k) is bucket hash(k) mod bucket_count, a valid index; right
\* after from_hashmap that bucket contains k for every key k of the source;
\* and the bucket a caller has just written k to through the handle is the
\* same one.
C11_GetBucketRouting ==
    (kind = "map" /\ Len0 >= 1) =>
        /\ Len0 = ctor.bucket_count
        /\ \A k \in Values :
             get_bucket(k) \in Buckets /\ get_bucket(k) = hash[k] % ctor.bucket_count
        /\ (ctor.fn = "THashMap::from_hashmap" /\ started = 0)
             => \A k \in DOMAIN ctor.map : k \in DOMAIN Bucket(get_bucket(k)).val
        /\ \A t \in Threads :
             (status[t] = "running" /\ pc[t] > 1 /\ prog[t][pc[t] - 1].op = "put")
             => LET k == prog[t][pc[t] - 1].arg[1]
                    b == hash[k] % ctor.bucket_count
                IN  b \in DOMAIN log[t] /\ k \in DOMAIN log[t][b].val

\* a two-bucket map built from a source with a key in the second bucket, and
\* a caller that has put a key through the handle of the second bucket
C11_Witness ==
    /\ kind = "map" /\ Len0 = 2 /\ ctor.fn = "THashMap::from_hashmap"
    /\ \E k \in DOMAIN ctor.map : get_bucket(k) = 1 /\ k \in DOMAIN Bucket(1).val
    /\ \E t \in Threads :
         /\ AtEnd(t) /\ prog[t][1].op = "put"
         /\ get_bucket(prog[t][1].arg[1]) = 1 /\ 1 \in DOMAIN log[t]

\* the entries of all committed buckets as one mapping
Holder(k) == CHOOSE i \in Buckets : k \in DOMAIN Bucket(i).val
AllEntries ==
    [k \in UNION {DOMAIN Bucket(i).val : i \in Buckets} |-> Bucket(Holder(k)).val[k]]

\* C12: a get_contents call during which nothing commits returns the union
\* of the buckets' mappings; on a map built by from_hashmap(m, K) (or new)
\* that is the source mapping m (the empty mapping).
C12_GetContentsIsUnion ==
    \A t \in Threads :
        (/\ kind = "map" /\ t = started /\ Len(res[t]) = 1
         /\ prog[t] = <<OpGetContents>>)
        => res[t][1] = AllEntries /\ res[t][1] = ctor.map

\* get_contents has returned both entries of a source split over two buckets
C12_Witness ==
    \E t \in Threads :
        /\ kind = "map" /\ Len0 = 2 /\ ctor.fn = "THashMap::from_hashmap"
        /\ Done(t) /\ prog[t] = <<OpGetContents>>
        /\ \A i \in Buckets : DOMAIN Bucket(i).val # {}
        /\ DOMAIN res[t][1] = {1, 2} /\ res[t][1][1] # res[t][1][2]

\* operation o is part of a transaction that has committed by the end of the step
CommittedOp(o) ==
    \E t \in Threads : status'[t] = "committed" /\ \E k \in 1..Len(prog'[t]) : prog'[t][k] = o

\* C13: the committed buckets change only in the step in which a transaction
\* commits, and then to exactly its log; a failed commit changes nothing
\* shared and discards the attempt's log and results; so every committed
\* element or entry stems from the constructor or a committed transaction.
C13_OnlyCommitsTakeEffect ==
    [][/\ (kind # "none" /\ shared' # shared)
            => \E t \in Threads : CommitsNow(t) /\ contents' = Committed(log[t])
       /\ \A t \in Threads :
            (attempts'[t] # attempts[t])
            => shared' = shared /\ log'[t] = EmptyLog /\ res'[t] = <<>>
       /\ kind' = "set"
            => \A i \in 1..Len(contents') : \A v \in contents'[i].val :
                  CommittedOp(OpInsert(v))
       /\ kind' = "map"
            => \A i \in 1..Len(contents') : \A k \in DOMAIN contents'[i].val :
                  \/ k \in DOMAIN ctor'.map /\ ctor'.map[k] = contents'[i].val[k]
                  \/ CommittedOp(OpPut(k, contents'[i].val[k]))
      ]_vars

\* a transaction whose insert had written its value has failed to commit, and
\* the value is in no committed bucket
C13_Witness ==
    \E t \in Threads :
        /\ kind = "set" /\ Len0 >= 1 /\ attempts[t] = 2 /\ pc[t] = 1 /\ log[t] = EmptyLog
        /\ prog[t][1].op = "insert"
        /\ \A i \in Buckets : prog[t][1].arg \notin Bucket(i).val

\* what thread t has done so far
Private(t) == <<pc[t], idx[t], log[t], res[t]>>

\* C14: once a bucket operation of insert, as_vec or is_empty has signalled
\* Retry, the next step of that thread returns Retry from the operation, with
\* no bucket read or written in between and no other result; afterwards the
\* thread does nothing more.
C14_RetryPropagated ==
    [][\A t \in Threads :
          /\ status[t] = "signalled"
               => \/ /\ status'[t] = "retry"
                     /\ res'[t] = Append(res[t], "Retry")
                     /\ log'[t] = log[t] /\ idx'[t] = idx[t] /\ pc'[t] = pc[t]
                     /\ shared' = shared
                  \/ status'[t] = "signalled" /\ Private(t)' = Private(t)
          /\ status[t] = "retry"
               => status'[t] = "retry" /\ Private(t)' = Private(t)
          /\ status'[t] = "retry"
               => Len(res'[t]) = pc'[t] /\ res'[t][pc'[t]] = "Retry"
      ]_vars

\* as_vec has returned Retry from the read of the second bucket: the first
\* bucket is in its read set, the second is not
C14_Witness ==
    \E t \in Threads :
        /\ kind = "set" /\ Len0 = 2 /\ status[t] = "retry"
        /\ Cur(t).op = "as_vec" /\ idx[t] = 1
        /\ DOMAIN log[t] = {0} /\ res[t] = <<"Retry">>

\* the committed single-insert transactions to which insert(v) returned true
FreshInserters(v) ==
    {t \in Threads : Done(t) /\ prog[t] = <<OpInsert(v)>> /\ res[t] = <<TRUE>>}

\* C15: among the committed transactions that insert the same value into a
\* set that did not hold it, no two have received true.
C15_OneFreshInsert ==
    (kind = "set" /\ Len0 >= 1) =>
        \A v \in Values : Cardinality(FreshInserters(v)) <= 1

\* C16: in a transaction on an empty set that inserts the same value twice,
\* the first insert returns true and the second false.
C16_RepeatInTransactionFalse ==
    (/\ kind = "set" /\ Len0 >= 1 /\ started = 1 /\ Len(res[1]) = 2
     /\ prog[1][1].op = "insert" /\ prog[1][2] = prog[1][1])
    => res[1] = <<TRUE, FALSE>>

\* thread t is inside insert and the step returns r from it
InsertReturns(t, r) ==
    /\ Running(t) /\ Cur(t).op = "insert"
    /\ res'[t] = Append(res[t], r)

\* C17: a step of insert never changes a committed bucket; only the step that
\* returns true changes the transaction's log, and then only the entry of
\* bucket hash(value) mod bucket_count, whose value becomes what the
\* transaction saw in that bucket plus exactly the inserted value; an insert
\* that returns false leaves the log as it was.
C17_InsertFrame ==
    [][\A t \in Threads :
          (Running(t) /\ Cur(t).op = "insert" /\ Len0 >= 1) =>
             LET v == Cur(t).arg
                 b == hash[v] % Len0
             IN  /\ (status'[t] = "running" /\ Private(t)' # Private(t)) => shared' = shared
                 /\ log'[t] # log[t] => InsertReturns(t, TRUE)
                 /\ InsertReturns(t, FALSE) => log'[t] = log[t]
                 /\ InsertReturns(t, TRUE) =>
                      /\ DOMAIN log'[t] = DOMAIN log[t] \cup {b}
                      /\ \A i \in DOMAIN log[t] \ {b} : log'[t][i] = log[t][i]
                      /\ log'[t][b].val = ReadValue(log[t], b) \cup {v}
                      /\ log'[t][b].val \ {v} = ReadValue(log[t], b) \ {v}
      ]_vars

\* one transaction has added two values to the second of two buckets and
\* committed; another transaction's insert has returned false with an empty log
C17_Witness ==
    \E t, u \in Threads :
        /\ kind = "set" /\ Len0 = 2
        /\ Done(t) /\ InsertOnly(prog[t]) /\ res[t] = <<TRUE, TRUE>>
        /\ Bucket(0).val = {} /\ Bucket(1).val = {1, 2}
        /\ AtEnd(u) /\ InsertOnly(prog[u]) /\ res[u] = <<FALSE>> /\ log[u] = EmptyLog

\* mapping m restricted to the keys that are routed to bucket i
OfBucket(m, i) == [k \in {x \in DOMAIN m : get_bucket(x) = i} |-> m[k]]

\* C18: the step of get_contents that reads bucket i adds to the collected
\* mapping exactly bucket i's committed mapping of that moment and keeps what
\* was collected from the other buckets; every entry collected is an entry of
\* the constructor's source or was put by a transaction that has committed.
C18_GetContentsPerBucket ==
    [][\A t \in Threads :
          (/\ kind = "map" /\ Running(t) /\ Cur(t).op = "get_contents"
           /\ idx'[t] = idx[t] + 1)
          => /\ OfBucket(acc'[t], idx[t]) = Bucket(idx[t]).val
             /\ \A i \in Buckets \ {idx[t]} : OfBucket(acc'[t], i) = OfBucket(acc[t], i)
             /\ \A k \in DOMAIN acc'[t] :
                   \/ k \in DOMAIN ctor.map /\ ctor.map[k] = acc'[t][k]
                   \/ CommittedOp(OpPut(k, acc'[t][k]))
      ]_vars

\* the only writer moved an entry from one bucket to the other in one
\* transaction; get_contents, the only other transaction, has returned a
\* mapping that is neither the container before nor the container after
C18_Witness ==
    \E t, u \in Threads :
        /\ kind = "map" /\ Len0 = 2 /\ started = 2
        /\ Done(u) /\ Len(prog[u]) = 2
        /\ prog[u][1].op = "remove" /\ prog[u][2].op = "put"
        /\ get_bucket(prog[u][1].arg) # get_bucket(prog[u][2].arg[1])
        /\ prog[t] = <<OpGetContents>> /\ Len(res[t]) = 1
        /\ res[t][1] # ctor.map /\ res[t][1] # AllEntries

\* in sequence r the elements come in ascending order of their buckets
BucketOrdered(r) ==
    \A p, q \in 1..Len(r) :
        bucket_no(r[p], Len0) < bucket_no(r[q], Len0) => p < q

\* C19: while as_vec runs, what it has collected stems from the buckets it
\* has visited, in ascending order of bucket index; so in the sequence it
\* returns every element of bucket i comes before every element of bucket j
\* whenever i < j.
C19_AsVecBucketOrder ==
    (kind = "set" /\ Len0 >= 1) =>
        \A t \in Threads :
            /\ (Running(t) /\ Cur(t).op = "as_vec")
                 => /\ BucketOrdered(acc[t])
                    /\ \A p \in 1..Len(acc[t]) : bucket_no(acc[t][p], Len0) < idx[t]
            /\ \A k \in 1..Len(res[t]) :
                 prog[t][k].op = "as_vec" => BucketOrdered(res[t][k])

\* as_vec has returned two elements, the first of bucket 0, the second of bucket 1
C19_Witness ==
    \E t \in Threads :
        /\ kind = "set" /\ Len0 = 2 /\ Done(t) /\ prog[t] = <<OpAsVec>>
        /\ Len(res[t][1]) = 2
        /\ bucket_no(res[t][1][1], 2) = 0 /\ bucket_no(res[t][1][2], 2) = 1

\* the values of all committed buckets of a set
AllValues == UNION {Bucket(i).val : i \in Buckets}

\* C20: on a set with at least one bucket, with every thread scheduled
\* fairly, each started single-insert transaction eventually commits; and
\* whenever all started transactions have committed, the committed set is the
\* union of the values they inserted.
C20_InsertProgress ==
    /\ \A t \in Threads : (kind = "set" /\ Len0 >= 1 /\ Begun(t)) ~> Done(t)
    /\ []((kind = "set" /\ Len0 >= 1 /\ \A t \in Threads : Begun(t) => Done(t))
            => AllValues = {prog[t][1].arg : t \in {u \in Threads : Begun(u)}})

\* three overlapping inserts of which one had to run again have all
\* committed, and the set holds both values inserted
C20_Witness ==
    /\ kind = "set" /\ Len0 >= 1 /\ started = 3
    /\ \A t \in Threads : Done(t)
    /\ \E t \in Threads : attempts[t] >= 2
    /\ AllValues = {1, 2}

====
